---------------------------- MODULE Spec2Model ----------------------------
(***************************************************************************)
(* Big-M simplex and branch-and-bound driver of tdm-course-project.        *)
(*                                                                         *)
(* Numbers are exact.  A RatioExt value is the triple <<kind, numer,       *)
(* denom>> with kind one of "Inf", "Finite", "MinusInf", "Nan"; a finite   *)
(* value is kept reduced with a positive denominator, as num_rational's    *)
(* Ratio keeps it.  A BigNumber is the pair <<big_part, small_part>>.      *)
(* Rows, columns and variables are numbered from 1 here (the source        *)
(* numbers them from 0); column index 0 stands for Option::None.          *)
(***************************************************************************)
EXTENDS Integers, Sequences, FiniteSets, TLC

VARIABLES
    input,          \* the ObjectiveFunction and Vec<Constraint> given to Problem::new
    problem,        \* the Problem built by Problem::new
    table,          \* the SimplexTable of the running Problem::solve
    prev_pivot_col, \* prev_pivot_col of Problem::solve
    solution,       \* Option<SolutionResult> of Problem::solve
    pc,             \* position of the caller: "solve", "solved", "improve", "done"
    stack,          \* the live Problem::improve calls, outermost first
    outcome,        \* result of Problem::solve_with_whole
    call,           \* a direct call of one library function: its name and arguments
    returned        \* the value that call returned

vars == <<input, problem, table, prev_pivot_col, solution, pc, stack, outcome, call, returned>>

\* F applied to the value of v, with v evaluated once
With(v, F(_)) == CHOOSE y \in {F(x) : x \in {v}} : TRUE

-----------------------------------------------------------------------------
(* num_rational::Ratio and RatioExt *)

Abs(n) == IF n < 0 THEN -n ELSE n

RECURSIVE Gcd(_, _)
Gcd(a, b) == IF b = 0 THEN a ELSE Gcd(b, a % b)

\* Ratio::new: reduced, denominator positive (d # 0)
Ratio(n, d) ==
    LET s == IF d < 0 THEN -1 ELSE 1
        g == Gcd(Abs(n), Abs(d))
    IN  <<"Finite", (s * n) \div g, (s * d) \div g>>

Inf == <<"Inf", 0, 1>>
MinusInf == <<"MinusInf", 0, 1>>
Nan == <<"Nan", 0, 1>>

from_integer(n) == <<"Finite", n, 1>>
zero == from_integer(0)
one == from_integer(1)

is_nan(x) == x[1] = "Nan"
is_finite(x) == x[1] = "Finite"
is_zero(x) == x[1] = "Finite" /\ x[2] = 0

\* sign of a finite value: -1, 0, 1
Signum(x) == IF x[2] < 0 THEN -1 ELSE IF x[2] = 0 THEN 0 ELSE 1

RatioAdd(x, y) == Ratio(x[2] * y[3] + y[2] * x[3], x[3] * y[3])
RatioSub(x, y) == Ratio(x[2] * y[3] - y[2] * x[3], x[3] * y[3])
RatioMul(x, y) == Ratio(x[2] * y[2], x[3] * y[3])
RatioDiv(x, y) == Ratio(x[2] * y[3], x[3] * y[2])
RatioCmp(x, y) ==
    LET l == x[2] * y[3]
        r == y[2] * x[3]
    IN  IF l < r THEN "Less" ELSE IF l = r THEN "Equal" ELSE "Greater"

\* impl PartialEq for RatioExt
eq(x, y) ==
    \/ x[1] = "Inf" /\ y[1] = "Inf"
    \/ x[1] = "MinusInf" /\ y[1] = "MinusInf"
    \/ x[1] = "Finite" /\ y[1] = "Finite" /\ x = y

\* impl PartialOrd for RatioExt; "None" is the unordered answer
partial_cmp(x, y) ==
    IF \/ x[1] = "Nan"
       \/ y[1] = "Nan"
       \/ x[1] = "Inf" /\ y[1] = "Inf"
       \/ x[1] = "MinusInf" /\ y[1] = "MinusInf"
    THEN "None"
    ELSE IF x[1] = "MinusInf" \/ (x[1] = "Finite" /\ y[1] = "Inf")
    THEN "Less"
    ELSE IF x[1] = "Inf" \/ (x[1] = "Finite" /\ y[1] = "MinusInf")
    THEN "Greater"
    ELSE RatioCmp(x, y)

lt(x, y) == partial_cmp(x, y) = "Less"
gt(x, y) == partial_cmp(x, y) = "Greater"
le(x, y) == partial_cmp(x, y) \in {"Less", "Equal"}
ge(x, y) == partial_cmp(x, y) \in {"Greater", "Equal"}

\* the partial comparison with every unordered pair called Equal
total_cmp_from_partial(x, y) ==
    IF partial_cmp(x, y) = "None" THEN "Equal" ELSE partial_cmp(x, y)

\* RatioExt::total_cmp
total_cmp(x, y) ==
    IF x[1] = "Finite" /\ y[1] = "Finite" THEN RatioCmp(x, y)
    ELSE IF x[1] = y[1] THEN "Equal"
    ELSE IF x[1] = "Inf" \/ y[1] = "Nan" THEN "Greater"
    ELSE IF y[1] = "Inf" \/ x[1] = "MinusInf" \/ x[1] = "Nan" THEN "Less"
    ELSE "Greater"

\* impl Add for &RatioExt
add(x, y) ==
    IF is_nan(x) \/ is_nan(y) THEN Nan
    ELSE CASE x[1] = "Inf" ->
                (CASE y[1] = "Inf" -> Inf
                   [] y[1] = "Finite" -> Inf
                   [] y[1] = "MinusInf" -> Nan)
           [] x[1] = "Finite" ->
                (CASE y[1] = "Inf" -> Inf
                   [] y[1] = "Finite" -> RatioAdd(x, y)
                   [] y[1] = "MinusInf" -> MinusInf)
           [] x[1] = "MinusInf" ->
                (CASE y[1] = "Inf" -> Nan
                   [] y[1] = "MinusInf" -> MinusInf
                   [] y[1] = "Finite" -> MinusInf)

\* impl Sub for &RatioExt
sub(x, y) ==
    IF is_nan(x) \/ is_nan(y) THEN Nan
    ELSE CASE x[1] = "Inf" ->
                (CASE y[1] = "Inf" -> Nan
                   [] y[1] = "Finite" -> Inf
                   [] y[1] = "MinusInf" -> Inf)
           [] x[1] = "Finite" ->
                (CASE y[1] = "Inf" -> MinusInf
                   [] y[1] = "Finite" -> RatioSub(x, y)
                   [] y[1] = "MinusInf" -> Inf)
           [] x[1] = "MinusInf" ->
                (CASE y[1] = "Inf" -> MinusInf
                   [] y[1] = "MinusInf" -> Nan
                   [] y[1] = "Finite" -> MinusInf)

\* an infinity times a finite value: Inf * f (sgn = 1) or MinusInf * f (sgn = -1)
InfTimes(sgn, f) ==
    IF Signum(f) = 0 THEN zero
    ELSE IF Signum(f) * sgn < 0 THEN MinusInf ELSE Inf

\* impl Mul for &RatioExt
mul(x, y) ==
    IF is_nan(x) \/ is_nan(y) THEN Nan
    ELSE CASE x[1] = "Inf" ->
                (CASE y[1] = "Inf" -> Inf
                   [] y[1] = "Finite" -> InfTimes(1, y)
                   [] y[1] = "MinusInf" -> MinusInf)
           [] x[1] = "Finite" ->
                (CASE y[1] = "Inf" -> InfTimes(1, x)
                   [] y[1] = "Finite" -> RatioMul(x, y)
                   [] y[1] = "MinusInf" -> MinusInf)
           [] x[1] = "MinusInf" ->
                (CASE y[1] = "Inf" -> MinusInf
                   [] y[1] = "MinusInf" -> Inf
                   [] y[1] = "Finite" -> InfTimes(-1, y))

\* impl Div for &RatioExt
div(x, y) ==
    IF is_nan(x) \/ is_nan(y) THEN Nan
    ELSE CASE x[1] = "Inf" ->
                (CASE y[1] = "Finite" -> IF Signum(y) < 0 THEN MinusInf ELSE Inf
                   [] OTHER -> Nan)
           [] x[1] = "Finite" ->
                (CASE y[1] = "Finite" ->
                        IF is_zero(y)
                        THEN IF is_zero(x) THEN Nan
                             ELSE IF Signum(x) < 0 THEN MinusInf ELSE Inf
                        ELSE RatioDiv(x, y)
                   [] OTHER -> zero)
           [] x[1] = "MinusInf" ->
                (CASE y[1] = "Finite" -> IF Signum(y) < 0 THEN Inf ELSE MinusInf
                   [] OTHER -> Nan)

\* a negation that leaves the infinities where they are
neg_finite_only(x) == IF x[1] = "Finite" THEN <<"Finite", -x[2], x[3]>> ELSE x

\* impl Neg for RatioExt
neg(x) ==
    CASE x[1] = "Inf" -> MinusInf
      [] x[1] = "Finite" -> <<"Finite", -x[2], x[3]>>
      [] x[1] = "MinusInf" -> Inf
      [] x[1] = "Nan" -> Nan

\* impl AddAssign<&Self>: the value left in self
add_assign_ref(x, y) ==
    IF is_nan(x) \/ is_nan(y) THEN Nan
    ELSE CASE x[1] = "Inf" ->
                (CASE y[1] = "Inf" -> Inf
                   [] y[1] = "Finite" -> Inf
                   [] y[1] = "MinusInf" -> Nan)
           [] x[1] = "Finite" ->
                (CASE y[1] = "Inf" -> Inf
                   [] y[1] = "Finite" -> RatioAdd(x, y)
                   [] y[1] = "MinusInf" -> MinusInf)
           [] x[1] = "MinusInf" ->
                (CASE y[1] = "Inf" -> Nan
                   [] y[1] = "MinusInf" -> MinusInf
                   [] y[1] = "Finite" -> MinusInf)

\* impl AddAssign (by value): *self += &rhs
add_assign(x, y) == add_assign_ref(x, y)

\* impl SubAssign<&Self>
sub_assign_ref(x, y) ==
    IF is_nan(x) \/ is_nan(y) THEN Nan
    ELSE CASE x[1] = "Inf" ->
                (CASE y[1] = "Inf" -> Nan
                   [] y[1] = "Finite" -> Inf
                   [] y[1] = "MinusInf" -> Inf)
           [] x[1] = "Finite" ->
                (CASE y[1] = "Inf" -> MinusInf
                   [] y[1] = "Finite" -> RatioSub(x, y)
                   [] y[1] = "MinusInf" -> Inf)
           [] x[1] = "MinusInf" ->
                (CASE y[1] = "Inf" -> MinusInf
                   [] y[1] = "MinusInf" -> Nan
                   [] y[1] = "Finite" -> MinusInf)

\* a subtraction in place that adds
sub_assign_adds(x, y) == add_assign_ref(x, y)

\* impl SubAssign (by value): *self -= &rhs
sub_assign(x, y) == sub_assign_ref(x, y)

\* impl MulAssign<&Self>
mul_assign_ref(x, y) ==
    IF is_nan(x) \/ is_nan(y) THEN Nan
    ELSE CASE x[1] = "Inf" ->
                (CASE y[1] = "Inf" -> Inf
                   [] y[1] = "Finite" -> InfTimes(1, y)
                   [] y[1] = "MinusInf" -> MinusInf)
           [] x[1] = "Finite" ->
                (CASE y[1] = "Inf" -> InfTimes(1, x)
                   [] y[1] = "Finite" -> RatioMul(x, y)
                   [] y[1] = "MinusInf" -> MinusInf)
           [] x[1] = "MinusInf" ->
                (CASE y[1] = "Inf" -> MinusInf
                   [] y[1] = "MinusInf" -> Inf
                   [] y[1] = "Finite" -> InfTimes(-1, y))

\* impl MulAssign (by value): the body is  *self += &rhs
mul_assign(x, y) == add_assign_ref(x, y)

\* a division in place that multiplies
div_assign_ref_multiplies(x, y) == mul_assign_ref(x, y)

\* impl DivAssign<&Self>
div_assign_ref(x, y) ==
    IF is_nan(x) \/ is_nan(y) THEN Nan
    ELSE CASE x[1] = "Inf" ->
                (CASE y[1] = "Finite" -> IF Signum(y) < 0 THEN MinusInf ELSE Inf
                   [] OTHER -> Nan)
           [] x[1] = "Finite" ->
                (CASE y[1] = "Finite" ->
                        IF is_zero(y)
                        THEN IF is_zero(x) THEN Nan
                             ELSE IF Signum(x) < 0 THEN MinusInf ELSE Inf
                        ELSE RatioDiv(x, y)
                   [] OTHER -> zero)
           [] x[1] = "MinusInf" ->
                (CASE y[1] = "Finite" -> IF Signum(y) < 0 THEN Inf ELSE MinusInf
                   [] OTHER -> Nan)

\* impl DivAssign (by value): the body is  *self *= &rhs
div_assign(x, y) == mul_assign_ref(x, y)

\* RatioExt::is_integer, RatioExt::trunc (round toward zero)
is_integer(x) == x[1] = "Finite" /\ x[3] = 1
trunc(x) ==
    IF x[1] # "Finite" THEN x
    ELSE IF x[2] >= 0 THEN from_integer(x[2] \div x[3])
    ELSE from_integer(-((-x[2]) \div x[3]))

-----------------------------------------------------------------------------
(* BigNumber<T>: big_part * M + small_part *)

\* a value lifted into the big part
bn_from_big(val) == <<val, zero>>

\* a lift that copies the value into both parts
bn_from_both(val) == <<val, val>>

\* From<T> for BigNumber<T>: the value is the small part
bn_from(val) == <<zero, val>>
one_big == <<one, zero>>
bn_zero == <<zero, zero>>

\* derive_more::Add, derive_more::Sub: field by field
bn_add(a, b) == <<add(a[1], b[1]), add(a[2], b[2])>>
bn_sub(a, b) == <<sub(a[1], b[1]), sub(a[2], b[2])>>
bn_neg(a) == <<neg(a[1]), neg(a[2])>>

\* impl Mul for BigNumber: the big*big term is dropped
bn_mul(a, b) ==
    With(mul(a[1], b[2]), LAMBDA big_small :
    With(mul(a[2], b[1]), LAMBDA small_big :
        <<add(big_small, small_big), mul(a[2], b[2])>>))

\* a comparison that looks at the small parts first
bn_partial_cmp_small_first(a, b) ==
    IF partial_cmp(a[2], b[2]) = "Equal" THEN partial_cmp(a[1], b[1])
    ELSE partial_cmp(a[2], b[2])

\* derived PartialEq and PartialOrd: fields in declaration order
bn_eq(a, b) == eq(a[1], b[1]) /\ eq(a[2], b[2])
bn_partial_cmp(a, b) ==
    LET c == partial_cmp(a[1], b[1])
    IN  IF c = "Equal" THEN partial_cmp(a[2], b[2]) ELSE c
bn_gt(a, b) == bn_partial_cmp(a, b) = "Greater"

\* BigNumber::total_cmp
bn_total_cmp(a, b) ==
    LET c == total_cmp(a[1], b[1])
    IN  IF c = "Equal" THEN total_cmp(a[2], b[2]) ELSE c

\* TryFrom<BigNumber>: Err when big_part is not zero
bn_try_into(value) ==
    IF ~is_zero(value[1]) THEN [ok |-> FALSE, val |-> zero]
    ELSE [ok |-> TRUE, val |-> value[2]]

-----------------------------------------------------------------------------
(* sequences *)

Max(a, b) == IF a >= b THEN a ELSE b

\* the elements of a finite set of integers in descending order
SortedSeqDescending(S) ==
    [i \in 1..Cardinality(S) |->
        CHOOSE x \in S : Cardinality({y \in S : y > x}) = i - 1]

\* the elements of a set of integers in increasing order
SortedSeq(S) ==
    [i \in 1..Cardinality(S) |->
        CHOOSE x \in S : Cardinality({y \in S : y < x}) = i - 1]

\* the indices of seq whose element satisfies Test, in order
Positions(seq, Test(_)) == SortedSeq({k \in 1..Len(seq) : Test(seq[k])})

\* the value put after the last element, whatever the position asked for
InsertLast(seq, pos, val) == Append(seq, val)

\* nalgebra insert_column(pos, val) / Vec insert at the 0-based position pos
InsertAt(seq, pos, val) ==
    SubSeq(seq, 1, pos) \o <<val>> \o SubSeq(seq, pos + 1, Len(seq))

Zeros(n) == [k \in 1..n |-> zero]

\* the sequence seq with every element evaluated
Collect(seq) == seq \o <<>>

-----------------------------------------------------------------------------
(* ObjectiveFunction, Constraint, Sign, Problem *)

\* ObjectiveFunction::new: n_significant_variables counts the non-zero coefficients
ObjectiveFunction(coefficients, minimization) ==
    [n_significant_variables |->
        Cardinality({k \in 1..Len(coefficients) : ~eq(coefficients[k], zero)}),
     coefficients |-> coefficients,
     minimization |-> minimization]

Constraint(coefficients, sign, rhs) ==
    [coefficients |-> coefficients, sign |-> sign, rhs |-> rhs]

\* impl Mul<BigRationalExt> for Sign
sign_mul(sign, rhs) ==
    IF ge(rhs, zero) THEN sign
    ELSE CASE sign = "Less" -> "Greater"
           [] sign = "Equals" -> sign
           [] sign = "Greater" -> "Less"

\* impl Mul<BigRationalExt> for Constraint: matrix * scalar multiplies each
\* element with Mul
constraint_mul(c, rhs) ==
    [coefficients |-> [k \in 1..Len(c.coefficients) |-> mul(c.coefficients[k], rhs)],
     rhs |-> mul(c.rhs, rhs),
     sign |-> sign_mul(c.sign, rhs)]

\* impl MulAssign<BigRationalExt> for Constraint: matrix *= scalar calls the
\* by-value mul_assign of each element; self.rhs *= &rhs is the by-reference one
constraint_mul_assign(c, rhs) ==
    [coefficients |->
        [k \in 1..Len(c.coefficients) |-> mul_assign(c.coefficients[k], rhs)],
     rhs |-> mul_assign_ref(c.rhs, rhs),
     sign |-> sign_mul(c.sign, rhs)]

\* the first pass of normalize leaving a constraint with negative rhs as supplied
reverse_negative_skipped(c) == c

\* Problem::normalize, first pass: reverse the constraints with negative rhs
reverse_negative(c) ==
    IF lt(c.rhs, zero) THEN constraint_mul_assign(c, neg(one)) ELSE c

\* Problem::normalize
normalize(objective_function, constraints) ==
    LET m == Len(constraints)
        lens == {Len(constraints[k].coefficients) : k \in 1..m}
                    \cup {Len(objective_function.coefficients)}
        max_coefficients_count == CHOOSE x \in lens : \A y \in lens : y <= x
        pad(coefficients) ==
            coefficients \o Zeros(max_coefficients_count - Len(coefficients))
        reversed == [k \in 1..m |-> reverse_negative(constraints[k])]
        padded == [k \in 1..m |-> pad(reversed[k].coefficients)]
        is_not_equals(c) == c.sign # "Equals"
        non_equals == Positions(reversed, is_not_equals)
        \* compensating variables: one column per non-Equals constraint
        compensated ==
            [k \in 1..m |-> padded[k] \o
                [j \in 1..Len(non_equals) |->
                    IF non_equals[j] = k
                    THEN IF reversed[k].sign = "Less" THEN one ELSE neg(one)
                    ELSE zero]]
        objective_coefficients ==
            pad(objective_function.coefficients) \o Zeros(Len(non_equals))
        is_minimization == objective_function.minimization
        \* artificial variables: one column per constraint
        with_artificial ==
            [k \in 1..m |-> compensated[k] \o
                [i \in 1..m |-> IF i # k THEN zero ELSE one]]
        lifted ==
            [k \in 1..Len(objective_coefficients) |-> bn_from(objective_coefficients[k])]
                \o [i \in 1..m |-> IF is_minimization THEN one_big ELSE bn_neg(one_big)]
    IN  [objective_function |->
            [n_significant_variables |-> objective_function.n_significant_variables,
             coefficients |-> lifted,
             minimization |-> is_minimization],
         constraints |-> with_artificial,
         rhs |-> [k \in 1..m |-> reversed[k].rhs]]

\* Problem::new
ProblemNew(objective_function, constraints) ==
    normalize(objective_function, constraints)

\* the cut added with the sign as given, a slack column always inserted
add_constraint_on_var_unpromoted(self, i, sign0, rhs) ==
    LET n_coefs == Len(self.objective_function.coefficients)
        n_constr == Len(self.constraints)
        n_significant == self.objective_function.n_significant_variables
        shifted ==
            [k \in 1..n_constr |->
                SubSeq(self.constraints[k], 1, n_significant) \o <<zero>>
                    \o SubSeq(self.constraints[k], n_significant + 1, n_coefs)
                    \o <<zero>>]
        coefficients ==
            [j \in 1..(n_coefs + 2) |->
                IF j = n_coefs + 2 THEN one
                ELSE IF j = n_significant + 1
                THEN IF sign0 = "Less" THEN one ELSE neg(one)
                ELSE IF j = i THEN one ELSE zero]
    IN  [objective_function |->
            [self.objective_function EXCEPT
                !.coefficients =
                    SubSeq(@, 1, n_significant) \o <<bn_zero>>
                        \o SubSeq(@, n_significant + 1, n_coefs) \o <<one_big>>],
         constraints |-> Append(shifted, coefficients),
         rhs |-> Append(self.rhs, rhs)]

\* Problem::add_constraint_on_var; i is the 1-based variable
add_constraint_on_var(self, i, sign0, rhs) ==
    LET sign == IF sign0 = "Less" /\ eq(rhs, zero) THEN "Equals" ELSE sign0
        n_coefs == Len(self.objective_function.coefficients)
        n_constr == Len(self.constraints)
        n_significant == self.objective_function.n_significant_variables
        minimization == self.objective_function.minimization
        penalty == IF minimization THEN one_big ELSE bn_neg(one_big)
        widened == [k \in 1..n_constr |-> Append(self.constraints[k], zero)]
    IN  IF sign = "Equals"
        THEN LET coefficients ==
                    [j \in 1..(n_coefs + 1) |->
                        IF j = n_coefs + 1 THEN one
                        ELSE IF j = i THEN one ELSE zero]
             IN  [objective_function |->
                      [self.objective_function EXCEPT
                          !.coefficients = Append(@, penalty)],
                  constraints |-> Append(widened, coefficients),
                  rhs |-> Append(self.rhs, rhs)]
        ELSE LET shifted ==
                    [k \in 1..n_constr |-> InsertAt(widened[k], n_significant, zero)]
                 coefficients ==
                    [j \in 1..(n_coefs + 2) |->
                        IF j = n_coefs + 2 THEN one
                        ELSE IF j = n_significant + 1
                        THEN IF sign = "Less" THEN one ELSE neg(one)
                        ELSE IF j = i THEN one ELSE zero]
             IN  [objective_function |->
                      [self.objective_function EXCEPT
                          !.coefficients =
                              Append(InsertAt(@, n_significant, bn_zero), penalty)],
                  constraints |-> Append(shifted, coefficients),
                  rhs |-> Append(self.rhs, rhs)]

-----------------------------------------------------------------------------
(* SimplexTable *)

\* SolutionResult, and Option::None of it
NoSolution == [tag |-> "None", error |-> "", fn_val |-> zero, vars |-> <<>>]
Ok(fn_val, vs) == [tag |-> "Ok", error |-> "", fn_val |-> fn_val, vars |-> vs]
Err(error) == [tag |-> "Err", error |-> error, fn_val |-> zero, vars |-> <<>>]
\* a panic (unwrap of None) unwinding out of the call
Panic == [tag |-> "Panic", error |-> "", fn_val |-> zero, vars |-> <<>>]

\* SimplexTable::new: the basis is the columns whose coefficient is M, in order
SimplexTableNew(p) ==
    LET coefficients == p.objective_function.coefficients
        is_big(c) == bn_eq(c, one_big)
    IN  [n_significant_variables |-> p.objective_function.n_significant_variables,
         basis |-> Positions(coefficients, is_big),
         tableau |-> p.constraints,
         coefficients |-> coefficients,
         rhs |-> p.rhs,
         minimization |-> p.objective_function.minimization]

\* SimplexTable::basis_coefficients
basis_coefficients(t) == [k \in 1..Len(t.basis) |-> t.coefficients[t.basis[k]]]

\* row vector times column vector over BigNumber
RECURSIVE DotUpTo(_, _, _)
DotUpTo(row, col, k) ==
    IF k = 0 THEN bn_zero
    ELSE With(DotUpTo(row, col, k - 1), LAMBDA sum :
         With(bn_mul(row[k], bn_from(col[k])), LAMBDA product :
            bn_add(sum, product)))
Dot(row, col) == DotUpTo(row, col, Len(row))

\* SimplexTable::function_estimation
function_estimation(t) == Dot(basis_coefficients(t), t.rhs)

\* SimplexTable::column_estimation_unchecked
column_estimation_unchecked(t, index) ==
    With(Dot(basis_coefficients(t), [k \in 1..Len(t.tableau) |-> t.tableau[k][index]]),
         LAMBDA product : bn_sub(product, t.coefficients[index]))

\* Iterator::max_by over (index, estimation): of equal maxima the last one
RECURSIVE MaxByFold(_, _, _, _)
MaxByFold(est, cands, k, acc) ==
    IF k > Len(cands) THEN acc
    ELSE With(IF bn_total_cmp(est[acc], est[cands[k]]) = "Greater" THEN acc ELSE cands[k],
              LAMBDA max : MaxByFold(est, cands, k + 1, max))

\* the entering column of step_min, 0 for None
PivotCol(t) ==
    With(Collect([j \in 1..Len(t.coefficients) |-> column_estimation_unchecked(t, j)]),
         LAMBDA est :
            With(SortedSeq({j \in 1..Len(est) : bn_gt(est[j], bn_zero)}),
                 LAMBDA cands :
                    IF cands = <<>> THEN 0 ELSE MaxByFold(est, cands, 2, cands[1])))

\* a minimum search keeping the last of equal minima
RECURSIVE MinByFoldLast(_, _, _, _)
MinByFoldLast(ratio, rows, k, acc) ==
    IF k > Len(rows) THEN acc
    ELSE IF partial_cmp(ratio[acc], ratio[rows[k]]) = "Less"
    THEN MinByFoldLast(ratio, rows, k + 1, acc)
    ELSE MinByFoldLast(ratio, rows, k + 1, rows[k])

\* Iterator::min_by with partial_cmp(..).unwrap(): of equal minima the first one;
\* -1 when a comparison is unordered (the unwrap panics)
RECURSIVE MinByFold(_, _, _, _)
MinByFold(ratio, rows, k, acc) ==
    IF k > Len(rows) THEN acc
    ELSE With(partial_cmp(ratio[acc], ratio[rows[k]]),
              LAMBDA c :
                 IF c = "None" THEN -1
                 ELSE IF c = "Greater" THEN MinByFold(ratio, rows, k + 1, rows[k])
                 ELSE MinByFold(ratio, rows, k + 1, acc))

\* the first row with a positive entry in the pivot column, whatever its ratio
PivotRowFirstPositive(t, pivot_col) ==
    With(SortedSeq({k \in 1..Len(t.tableau) : gt(t.tableau[k][pivot_col], zero)}),
         LAMBDA rows : IF rows = <<>> THEN 0 ELSE rows[1])

\* the leaving row of step_min for the entering column; 0 when no row has a
\* positive entry (min_by gives None), -1 when a comparison panics
PivotRow(t, pivot_col) ==
    With(Collect([k \in 1..Len(t.tableau) |-> div(t.rhs[k], t.tableau[k][pivot_col])]),
         LAMBDA ratio :
            With(SortedSeq({k \in 1..Len(t.tableau) : gt(t.tableau[k][pivot_col], zero)}),
                 LAMBDA rows :
                    IF rows = <<>> THEN 0 ELSE MinByFold(ratio, rows, 2, rows[1])))

\* the pivot of step_min on (pivot_row, pivot_col)
Pivot(t, pivot_row, pivot_col) ==
    With(t.tableau[pivot_row][pivot_col], LAMBDA pivot_el :
    With(div_assign_ref(t.rhs[pivot_row], pivot_el), LAMBDA new_rhs_pivot :
    With(Collect([j \in 1..Len(t.tableau[pivot_row]) |->
                    div_assign_ref(t.tableau[pivot_row][j], pivot_el)]),
         LAMBDA new_pivot_row :
        [t EXCEPT
            !.rhs = Collect([k \in 1..Len(t.rhs) |->
                        IF k = pivot_row THEN new_rhs_pivot
                        ELSE With(mul(new_rhs_pivot, t.tableau[k][pivot_col]),
                                  LAMBDA product : sub(t.rhs[k], product))]),
            !.tableau = Collect([k \in 1..Len(t.tableau) |->
                        IF k = pivot_row THEN new_pivot_row
                        ELSE Collect([j \in 1..Len(t.tableau[k]) |->
                                With(mul(new_pivot_row[j], t.tableau[k][pivot_col]),
                                     LAMBDA product :
                                        sub_assign(t.tableau[k][j], product))])]),
            !.basis = [@ EXCEPT ![pivot_row] = pivot_col]])))

\* the values of the significant variables read off the table
SolutionVars(t) ==
    [i \in 1..t.n_significant_variables |->
        IF \E k \in 1..Len(t.basis) : t.basis[k] = i
        THEN t.rhs[CHOOSE k \in 1..Len(t.basis) :
                      /\ t.basis[k] = i
                      /\ \A k2 \in 1..Len(t.basis) : t.basis[k2] = i => k <= k2]
        ELSE zero]

\* the optimal branch of step_min
OptimalResult(t) ==
    LET fn_val == bn_try_into(function_estimation(t))
    IN  IF fn_val.ok THEN Ok(fn_val.val, SolutionVars(t)) ELSE Err("Infinite")

\* SimplexTable::step_min (SimplexTable::step with minimization)
step_min(t, prev_pivot_column) ==
    With(PivotCol(t), LAMBDA pivot_col :
        IF pivot_col # 0 /\ prev_pivot_column = pivot_col
        THEN [table |-> t, solution |-> Err("Absent"), pivot_col |-> pivot_col]
        ELSE IF pivot_col # 0
        THEN With(PivotRow(t, pivot_col), LAMBDA pivot_row :
                IF pivot_row < 1
                THEN [table |-> t, solution |-> Panic, pivot_col |-> pivot_col]
                ELSE [table |-> Pivot(t, pivot_row, pivot_col),
                      solution |-> NoSolution,
                      pivot_col |-> pivot_col])
        ELSE [table |-> t, solution |-> OptimalResult(t), pivot_col |-> pivot_col])


\* SimplexTable::step; step_max is unimplemented!()
step(t, prev_pivot_column) ==
    IF t.minimization THEN step_min(t, prev_pivot_column)
    ELSE [table |-> t, solution |-> Panic, pivot_col |-> 0]

-----------------------------------------------------------------------------
(* bounds of the model *)

\* pivots a branch LP may take inside one thread step
MaxIter == 12
\* nesting depth of Problem::improve calls
MaxDepth == 3
\* largest right-hand side of the enumerated constraints
MaxRhs == 3

\* a branch LP that has not returned within MaxIter pivots
Diverge == [tag |-> "Diverge", error |-> "", fn_val |-> zero, vars |-> <<>>]

\* the loop of Problem::solve
RECURSIVE SolveLoop(_, _, _)
SolveLoop(t, prev_pivot_col_, fuel) ==
    IF fuel = 0 THEN Diverge
    ELSE With(step(t, prev_pivot_col_), LAMBDA r :
            IF r.solution.tag # "None" THEN r.solution
            ELSE SolveLoop(r.table, r.pivot_col, fuel - 1))

\* Problem::solve
solve(self) == With(SimplexTableNew(self), LAMBDA t : SolveLoop(t, 0, MaxIter))

-----------------------------------------------------------------------------
(* Problem::improve: one record per live call, two branch threads each *)

\* vars.par_iter().all(|var| var.is_integer())
all_integer(vs) == \A k \in 1..Len(vs) : is_integer(vs[k])
\* find_map_any finding no variable at all
FractionalNone(vs) == {}

\* the variables find_map_any may return: any one with a non-integer value
Fractional(vs) == {k \in 1..Len(vs) : ~is_integer(vs[k])}

Spawned == [pc |-> "spawned", sol |-> NoSolution, result |-> "Running"]

\* improve up to the spawn of both threads, branching on variable i
Frame(self, sol, i) ==
    [self |-> self,
     i |-> i,
     whole_part |-> trunc(sol.vars[i]),
     best_sol |-> NoSolution,
     mutex |-> "free",
     poisoned |-> FALSE,
     left |-> Spawned,
     right |-> Spawned]

\* the problem a branch thread solves
BranchProblem(f, side) ==
    IF side = "left"
    THEN add_constraint_on_var(f.self, f.i, "Less", f.whole_part)
    ELSE add_constraint_on_var(f.self, f.i, "Greater", add(f.whole_part, one))

\* no branch is ever taken to be worse than the incumbent
WorseNever(minimization, best_fn_val, fn_val) == FALSE

\* the branch is no better than the incumbent
Worse(minimization, best_fn_val, fn_val) ==
    IF minimization THEN le(best_fn_val, fn_val) ELSE ge(best_fn_val, fn_val)

\* the recursed result replaces an incumbent only when strictly better and integer
Improved(minimization, best_fn_val, s) ==
    /\ IF minimization THEN lt(s.fn_val, best_fn_val) ELSE gt(s.fn_val, best_fn_val)
    /\ all_integer(s.vars)

\* the branch thread after its LP solve returned r: an error leaves through `?`
AfterSolve(f, side, r) ==
    [f EXCEPT ![side] =
        IF r.tag = "Ok" THEN [pc |-> "solved", sol |-> r, result |-> "Running"]
        ELSE IF r.tag = "Err" THEN [pc |-> "done", sol |-> r, result |-> r.error]
        ELSE [pc |-> "done", sol |-> r, result |-> "Panic"]]

\* the match on (best_sol, sol) under the lock reaches a recursive improve call
Recurses(f, side) ==
    /\ ~f.poisoned
    /\ ~(/\ f.best_sol.tag # "None"
         /\ Worse(f.self.objective_function.minimization,
                  f.best_sol.fn_val, f[side].sol.fn_val))
    /\ ~all_integer(f[side].sol.vars)

\* the branch thread locks a free mutex and ends without recursing: the lock
\* is poisoned (unwrap panics), the branch is pruned, or its integer solution
\* becomes the incumbent
Critical(f, side) ==
    IF f.poisoned
    THEN [f EXCEPT ![side].pc = "done", ![side].result = "Panic"]
    ELSE IF /\ f.best_sol.tag # "None"
            /\ Worse(f.self.objective_function.minimization,
                     f.best_sol.fn_val, f[side].sol.fn_val)
    THEN [f EXCEPT ![side].pc = "done", ![side].result = "Ok"]
    ELSE [f EXCEPT ![side].pc = "done", ![side].result = "Ok",
                   !.best_sol = f[side].sol]

\* what improve returns once both threads have ended
JoinResult(f) ==
    IF f.left.result = "Panic" \/ f.right.result = "Panic" THEN Panic
    ELSE IF f.left.result # "Ok" THEN Err(f.left.result)
    ELSE IF f.right.result # "Ok" THEN Err(f.right.result)
    ELSE IF f.best_sol.tag = "None" THEN Panic
    ELSE f.best_sol

\* the branch thread ends after its recursive improve call returned r, and the
\* mutex stays locked
AfterRecursionKeepsLock(f, side, r) ==
    [f EXCEPT ![side].pc = "done",
              ![side].result = IF r.tag = "Ok" THEN "Ok"
                               ELSE IF r.tag = "Err" THEN r.error ELSE "Panic",
              !.best_sol = IF r.tag = "Ok" /\ @.tag = "None" THEN r ELSE @]

\* the branch thread after its recursive improve call returned r
AfterRecursion(f, side, r) ==
    LET minimization == f.self.objective_function.minimization
        ended(res) == [f[side] EXCEPT !.pc = "done", !.result = res]
    IN  IF r.tag = "Panic"
        THEN [f EXCEPT ![side] = ended("Panic"), !.mutex = "free", !.poisoned = TRUE]
        ELSE IF r.tag = "Err"
        THEN [f EXCEPT ![side] = ended(r.error), !.mutex = "free"]
        ELSE [f EXCEPT
                ![side] = ended("Ok"),
                !.mutex = "free",
                !.best_sol =
                    IF @.tag = "None" THEN r
                    ELSE IF Improved(minimization, @.fn_val, r) THEN r ELSE @]

-----------------------------------------------------------------------------
(* inputs *)

Signs == {"Less", "Equals", "Greater"}

ObjCoefs1 == {-1, 1, 2}
ObjCoefs2 == {0, 1, 2, 3}
ConCoefs1 == {0, 1, 2}
ConCoefs2 == {-1, 1, 2}
Rhs == (-1)..MaxRhs

\* one constraint over two variables
GridInputs ==
    {[objective |-> <<from_integer(c1), from_integer(c2)>>,
      constraints |-> <<Constraint(<<from_integer(a1), from_integer(a2)>>,
                                   sign, from_integer(r))>>] :
        c1 \in ObjCoefs1, c2 \in ObjCoefs2, a1 \in ConCoefs1, a2 \in ConCoefs2,
        sign \in Signs, r \in Rhs}

\* rows and objective of different widths, two constraints
RaggedInputs ==
    {[objective |-> <<from_integer(c1)>>,
      constraints |-> <<Constraint(<<from_integer(a1), from_integer(a2)>>,
                                   s1, from_integer(r)),
                        Constraint(<<from_integer(a2)>>, s2, from_integer(2))>>] :
        c1 \in ObjCoefs1, a1 \in ConCoefs1, a2 \in ConCoefs2,
        s1 \in Signs, s2 \in Signs, r \in Rhs}

\* the degenerate LP of Marshall and Suurballe, on which the largest-estimate
\* rule cycles
CyclingInput ==
    [objective |-> <<from_integer(-2), from_integer(-3), from_integer(1),
                     from_integer(12)>>,
     constraints |->
        <<Constraint(<<from_integer(-2), from_integer(-9), from_integer(1),
                       from_integer(9)>>, "Less", zero),
          Constraint(<<Ratio(1, 3), from_integer(1), Ratio(-1, 3),
                       from_integer(-2)>>, "Less", zero)>>]

\* one constraint over one variable
SingleInputs ==
    {[objective |-> <<from_integer(c1)>>,
      constraints |-> <<Constraint(<<from_integer(a1)>>, sign, from_integer(r))>>] :
        c1 \in ObjCoefs1, a1 \in ConCoefs2, sign \in Signs, r \in Rhs}

Inputs == GridInputs \cup RaggedInputs \cup SingleInputs \cup {CyclingInput}

\* no library function is being called directly
NoCall == [fn |-> "none", args |-> <<>>]
NotReturned == [done |-> FALSE, val |-> zero]

-----------------------------------------------------------------------------
(* the state machine *)

Init ==
    /\ input \in Inputs
    /\ problem = ProblemNew(ObjectiveFunction(input.objective, TRUE), input.constraints)
    /\ table = SimplexTableNew(problem)
    /\ prev_pivot_col = 0
    /\ solution = NoSolution
    /\ pc = "solve"
    /\ stack = <<>>
    /\ outcome = NoSolution
    /\ call = NoCall
    /\ returned = NotReturned

\* one table.step(prev_pivot_col) of the loop of Problem::solve
Step ==
    /\ pc = "solve"
    /\ \E r \in {step(table, prev_pivot_col)} :
           /\ table' = r.table
           /\ prev_pivot_col' = r.pivot_col
           /\ solution' = r.solution
           /\ pc' = IF r.solution.tag = "None" THEN "solve" ELSE "solved"
    /\ UNCHANGED <<input, problem, stack, outcome, call, returned>>

\* Problem::solve_with_whole after its solve, up to the spawn of the root
\* improve call's threads
SolveWithWhole ==
    /\ pc = "solved"
    /\ IF solution.tag # "Ok"
       THEN /\ outcome' = solution
            /\ pc' = "done"
            /\ stack' = stack
       ELSE IF Fractional(solution.vars) = {}
       THEN /\ outcome' = solution
            /\ pc' = "done"
            /\ stack' = stack
       ELSE \E i \in Fractional(solution.vars) :
            /\ stack' = <<Frame(problem, solution, i)>>
            /\ pc' = "improve"
            /\ outcome' = outcome
    /\ UNCHANGED <<input, problem, table, prev_pivot_col, solution, call, returned>>

\* a branch thread adds its constraint and solves its LP
BranchSolve(side) ==
    /\ pc = "improve"
    /\ \E d \in 1..Len(stack) :
        \E f \in {stack[d]} :
            /\ f[side].pc = "spawned"
            /\ \E r \in {solve(BranchProblem(f, side))} :
                /\ r.tag # "Diverge"
                /\ stack' = [stack EXCEPT ![d] = AfterSolve(f, side, r)]
    /\ UNCHANGED <<input, problem, table, prev_pivot_col, solution, pc, outcome, call, returned>>

\* a branch thread takes the incumbent mutex and runs the match on
\* (best_sol, its solution) up to its return or its recursive improve call
BranchLock(side) ==
    /\ pc = "improve"
    /\ LET d == Len(stack)
           f == stack[d]
       IN  /\ d >= 1
           /\ f[side].pc = "solved"
           /\ f.mutex = "free"
           /\ IF ~Recurses(f, side)
              THEN stack' = [stack EXCEPT ![d] = Critical(f, side)]
              ELSE /\ d < MaxDepth
                   /\ \E i \in Fractional(f[side].sol.vars) :
                        stack' = Append(
                            [stack EXCEPT ![d][side].pc = "recursing",
                                          ![d].mutex = side],
                            Frame(BranchProblem(f, side), f[side].sol, i))
    /\ UNCHANGED <<input, problem, table, prev_pivot_col, solution, pc, outcome, call, returned>>

\* both threads of the innermost improve call have ended: the call returns to
\* the thread that made it, or to solve_with_whole
ImproveReturn ==
    /\ pc = "improve"
    /\ LET d == Len(stack)
           f == stack[d]
           r == JoinResult(f)
       IN  /\ d >= 1
           /\ f.left.pc = "done"
           /\ f.right.pc = "done"
           /\ IF d = 1
              THEN /\ stack' = <<>>
                   /\ outcome' = r
                   /\ pc' = "done"
              ELSE /\ stack' = [SubSeq(stack, 1, d - 1) EXCEPT
                                  ![d - 1] = AfterRecursion(@, @.mutex, r)]
                   /\ outcome' = outcome
                   /\ pc' = pc
    /\ UNCHANGED <<input, problem, table, prev_pivot_col, solution, call, returned>>

Next ==
    \/ Step
    \/ SolveWithWhole
    \/ BranchSolve("left")
    \/ BranchSolve("right")
    \/ BranchLock("left")
    \/ BranchLock("right")
    \/ ImproveReturn

Spec == Init /\ [][Next]_vars

\* the threads are operating-system threads: a thread that can take a step
\* takes one eventually
SpecFair == Spec /\ WF_vars(Next)

\* Problem::solve alone; the loop has no suspension point, so it keeps stepping
SpecLP == Init /\ [][Step]_vars /\ WF_vars(Step)

-----------------------------------------------------------------------------
(* direct calls of the number and constraint functions, one call per behaviour *)

\* largest numerator and denominator of the finite arguments
MaxNum == 2

\* the finite arguments, and all arguments
Finites == {Ratio(n, d) : n \in (-MaxNum)..MaxNum, d \in 1..MaxNum}
ExtVals == Finites \cup {Inf, MinusInf, Nan}

\* the parts of the BigNumber arguments, and the BigNumber arguments
BigParts == {from_integer(n) : n \in (-MaxNum)..MaxNum} \cup {Inf, MinusInf, Nan}
BigNumbers == {<<b, s>> : b \in BigParts, s \in BigParts}

\* the Constraint arguments
CallCoefs == {from_integer(n) : n \in (-1)..MaxNum}
CallConstraints ==
    {Constraint(<<a1, a2>>, sign, r) :
        a1 \in CallCoefs, a2 \in CallCoefs, sign \in Signs, r \in CallCoefs}

BinaryFns == {"add", "sub", "mul", "div", "total_cmp"}
BinaryCalls == {[fn |-> f, args |-> <<x, y>>] : f \in BinaryFns, x \in ExtVals, y \in ExtVals}
NegCalls == {[fn |-> "neg", args |-> <<x>>] : x \in ExtVals}
BigNumberCalls ==
    {[fn |-> "bn_partial_cmp", args |-> <<a, b>>] : a \in BigNumbers, b \in BigNumbers}
ConstraintCalls ==
    {[fn |-> f, args |-> <<c, k>>] :
        f \in {"constraint_mul", "constraint_mul_assign"},
        c \in CallConstraints, k \in {one, neg(one)}}
ReverseCalls == {[fn |-> "reverse_negative", args |-> <<c>>] : c \in CallConstraints}
AssignCalls ==
    {[fn |-> f, args |-> <<x, y>>] :
        f \in {"add_assign", "add_assign_ref", "sub_assign", "sub_assign_ref",
               "mul_assign", "mul_assign_ref", "div_assign", "div_assign_ref"},
        x \in ExtVals, y \in ExtVals}

InitCalls ==
    /\ \/ call \in BinaryCalls
       \/ call \in NegCalls
       \/ call \in BigNumberCalls
       \/ call \in ConstraintCalls
       \/ call \in ReverseCalls
       \/ call \in AssignCalls
    /\ returned = NotReturned
    /\ input = CyclingInput
    /\ problem = ProblemNew(ObjectiveFunction(input.objective, TRUE), input.constraints)
    /\ table = SimplexTableNew(problem)
    /\ prev_pivot_col = 0
    /\ solution = NoSolution
    /\ pc = "call"
    /\ stack = <<>>
    /\ outcome = NoSolution

\* the call of fn returns v
Returns(fn, v) ==
    /\ pc = "call"
    /\ call.fn = fn
    /\ ~returned.done
    /\ returned' = [done |-> TRUE, val |-> v]
    /\ UNCHANGED <<input, problem, table, prev_pivot_col, solution, pc, stack,
                   outcome, call>>

CallAdd == Returns("add", add(call.args[1], call.args[2]))
CallSub == Returns("sub", sub(call.args[1], call.args[2]))
CallMul == Returns("mul", mul(call.args[1], call.args[2]))
CallDiv == Returns("div", div(call.args[1], call.args[2]))
CallNeg == Returns("neg", neg(call.args[1]))
CallTotalCmp == Returns("total_cmp", total_cmp(call.args[1], call.args[2]))
CallBigNumberCmp ==
    Returns("bn_partial_cmp", bn_partial_cmp(call.args[1], call.args[2]))
CallConstraintMul ==
    Returns("constraint_mul", constraint_mul(call.args[1], call.args[2]))
CallConstraintMulAssign ==
    Returns("constraint_mul_assign", constraint_mul_assign(call.args[1], call.args[2]))
CallReverseNegative == Returns("reverse_negative", reverse_negative(call.args[1]))

\* x op= y: the value x holds afterwards
CallAddAssign == Returns("add_assign", add_assign(call.args[1], call.args[2]))
CallAddAssignRef == Returns("add_assign_ref", add_assign_ref(call.args[1], call.args[2]))
CallSubAssign == Returns("sub_assign", sub_assign(call.args[1], call.args[2]))
CallSubAssignRef == Returns("sub_assign_ref", sub_assign_ref(call.args[1], call.args[2]))
CallMulAssign == Returns("mul_assign", mul_assign(call.args[1], call.args[2]))
CallMulAssignRef == Returns("mul_assign_ref", mul_assign_ref(call.args[1], call.args[2]))
CallDivAssign == Returns("div_assign", div_assign(call.args[1], call.args[2]))
CallDivAssignRef == Returns("div_assign_ref", div_assign_ref(call.args[1], call.args[2]))

NextCalls ==
    \/ CallAdd
    \/ CallSub
    \/ CallMul
    \/ CallDiv
    \/ CallNeg
    \/ CallTotalCmp
    \/ CallBigNumberCmp
    \/ CallConstraintMul
    \/ CallConstraintMulAssign
    \/ CallReverseNegative
    \/ CallAddAssign
    \/ CallAddAssignRef
    \/ CallSubAssign
    \/ CallSubAssignRef
    \/ CallMulAssign
    \/ CallMulAssignRef
    \/ CallDivAssign
    \/ CallDivAssignRef

SpecCalls == InitCalls /\ [][NextCalls]_vars

-----------------------------------------------------------------------------
(* the run of improve in which the left thread takes the mutex first and the
   lowest fractional variable is branched on *)

RECURSIVE improve_in_order(_, _, _), thread_in_order(_, _, _)

\* one branch thread from its spawn to its end, nested improve calls included
thread_in_order(f, side, depth) ==
    With(BranchProblem(f, side), LAMBDA p :
    With(solve(p), LAMBDA r :
        IF r.tag = "Diverge"
        THEN [f EXCEPT ![side].pc = "done", ![side].result = "Diverge"]
        ELSE With(AfterSolve(f, side, r), LAMBDA g :
            IF g[side].pc = "done" THEN g
            ELSE IF ~Recurses(g, side) THEN Critical(g, side)
            ELSE With(improve_in_order(p, r, depth - 1), LAMBDA ret :
                IF ret.tag = "Diverge"
                THEN [g EXCEPT ![side].pc = "done", ![side].result = "Diverge"]
                ELSE AfterRecursion(g, side, ret)))))

\* improve, at most depth calls deep
improve_in_order(self, sol, depth) ==
    IF Fractional(sol.vars) = {} THEN sol
    ELSE IF depth = 0 THEN Diverge
    ELSE With(CHOOSE i \in Fractional(sol.vars) :
                    \A j \in Fractional(sol.vars) : i <= j, LAMBDA i :
         With(thread_in_order(thread_in_order(Frame(self, sol, i), "left", depth),
                              "right", depth), LAMBDA f :
            IF f.left.result = "Diverge" \/ f.right.result = "Diverge"
            THEN Diverge
            ELSE JoinResult(f)))

-----------------------------------------------------------------------------
(* the supplied problem, evaluated directly *)

\* largest point coordinate enumerated when searching for a better integer point
MaxPoint == 3

\* the number of original variables
Width(inp) ==
    CHOOSE w \in {Len(inp.objective)}
                    \cup {Len(inp.constraints[k].coefficients) :
                            k \in 1..Len(inp.constraints)} :
        /\ w >= Len(inp.objective)
        /\ \A k \in 1..Len(inp.constraints) : w >= Len(inp.constraints[k].coefficients)

\* coefs[j], zero beyond the end
Coef(coefs, j) == IF j <= Len(coefs) THEN coefs[j] ELSE zero

\* sum of coefs[j] * z[j] over the first w variables
RECURSIVE LinearForm(_, _, _)
LinearForm(coefs, z, w) ==
    IF w = 0 THEN zero
    ELSE RatioAdd(LinearForm(coefs, z, w - 1), RatioMul(Coef(coefs, w), z[w]))

\* the point z satisfies the supplied constraint c
Holds(c, z) ==
    LET v == LinearForm(c.coefficients, z, Len(z))
    IN  CASE c.sign = "Less" -> RatioCmp(v, c.rhs) \in {"Less", "Equal"}
          [] c.sign = "Equals" -> RatioCmp(v, c.rhs) = "Equal"
          [] c.sign = "Greater" -> RatioCmp(v, c.rhs) \in {"Greater", "Equal"}

HoldsAll(inp, z) == \A k \in 1..Len(inp.constraints) : Holds(inp.constraints[k], z)

\* the values of the original variables a solution reports, zero where it
\* reports none
PointOf(inp, vs) == [j \in 1..Width(inp) |-> Coef(vs, j)]

\* the non-negative integer points of the box
IntPoints(inp) == [1..Width(inp) -> {from_integer(v) : v \in 0..MaxPoint}]

\* some supplied constraint alone has no non-negative solution
RowInfeasible(c) ==
    LET some_pos == \E j \in 1..Len(c.coefficients) : Signum(c.coefficients[j]) > 0
        some_neg == \E j \in 1..Len(c.coefficients) : Signum(c.coefficients[j]) < 0
    IN  CASE c.sign = "Less" -> Signum(c.rhs) < 0 /\ ~some_neg
          [] c.sign = "Greater" -> Signum(c.rhs) > 0 /\ ~some_pos
          [] c.sign = "Equals" -> \/ Signum(c.rhs) > 0 /\ ~some_pos
                                  \/ Signum(c.rhs) < 0 /\ ~some_neg
InfeasibleInput == \E k \in 1..Len(input.constraints) : RowInfeasible(input.constraints[k])

\* an artificial variable is basic in a row whose right-hand side is not zero
ArtificialInBasis(t) ==
    \E k \in 1..Len(t.basis) :
        /\ bn_eq(t.coefficients[t.basis[k]], one_big)
        /\ ~is_zero(t.rhs[k])

-----------------------------------------------------------------------------
(* properties *)

\* C1: whenever solve_with_whole returns Ok(s), every entry of s.vars is an
\* integer, for every input, every choice of the fractional branching variable
\* and every interleaving of the two branch threads.
C1_IntegerVars ==
    (pc = "done" /\ outcome.tag = "Ok")
        => \A k \in 1..Len(outcome.vars) :
                outcome.vars[k][1] = "Finite" /\ outcome.vars[k][3] = 1

\* solve_with_whole returned Ok after branching on a fractional LP solution
C1_ReturnedAfterBranching ==
    /\ pc = "done"
    /\ outcome.tag = "Ok"
    /\ \E k \in 1..Len(solution.vars) : solution.vars[k][3] # 1

\* C2: whenever solve_with_whole returns Ok(s) for a minimization problem, no
\* point with non-negative integer values of the original variables satisfies
\* all supplied constraints with an objective value strictly smaller than
\* s.fn_val.
C2_NoBetterIntegerPoint ==
    (pc = "done" /\ outcome.tag = "Ok" /\ problem.objective_function.minimization)
        => \A z \in IntPoints(input) :
                HoldsAll(input, z)
                    => RatioCmp(LinearForm(input.objective, z, Len(z)),
                                outcome.fn_val) # "Less"

\* C3: whenever solve returns Ok(s), substituting s.vars for the original
\* variables satisfies every supplied constraint with its original right-hand
\* side (negative ones included), and s.fn_val is the sum of the original
\* objective coefficients times s.vars.
C3_SolutionSatisfiesSupplied ==
    solution.tag = "Ok"
        => LET z == PointOf(input, solution.vars)
           IN  /\ HoldsAll(input, z)
               /\ RatioCmp(solution.fn_val,
                           LinearForm(input.objective, z, Len(z))) = "Equal"

\* C4: when one sibling's LP solve returns an error and the other sibling has
\* an integer solution, the improve call made by solve_with_whole returns Ok
\* with the successful sibling's solution, not the error.
C4_SuccessfulSiblingWins ==
    [][\A good \in {"left", "right"} : \A bad \in {"left", "right"} \ {good} :
        ( /\ pc = "improve"
          /\ Len(stack) = 1
          /\ stack[1][bad].pc = "done"
          /\ stack[1][bad].sol.tag = "Err"
          /\ stack[1][good].pc = "done"
          /\ stack[1][good].sol.tag = "Ok"
          /\ all_integer(stack[1][good].sol.vars)
          /\ pc' = "done" )
            => outcome' = stack[1][good].sol]_vars

\* C5: when both siblings end in an error and the incumbent is still None, the
\* improve call made by solve_with_whole returns Err(Absent), whatever errors
\* the siblings reported.
C5_BothErrGivesAbsent ==
    [][( /\ pc = "improve"
         /\ Len(stack) = 1
         /\ stack[1].left.pc = "done"
         /\ stack[1].left.result \in {"Infinite", "Absent"}
         /\ stack[1].right.pc = "done"
         /\ stack[1].right.result \in {"Infinite", "Absent"}
         /\ stack[1].best_sol.tag = "None"
         /\ pc' = "done" )
            => outcome' = Err("Absent")]_vars

\* C6: a step whose optimality test passes returns Err(Infinite) exactly when
\* an artificial variable is basic with a non-zero right-hand side, and Ok
\* otherwise; and a problem whose supplied constraints admit no non-negative
\* solution is never answered with Ok.
C6_InfiniteIffArtificial ==
    /\ [][(pc = "solve" /\ PivotCol(table) = 0)
            => IF ArtificialInBasis(table)
               THEN solution' = Err("Infinite")
               ELSE solution'.tag = "Ok"]_vars
    /\ [](InfeasibleInput => solution.tag # "Ok")

\* C7: a minimization step with an entering column but no row with a strictly
\* positive entry in it returns Err(Infinite); it neither pivots nor aborts.
C7_UnboundedReturnsInfinite ==
    [][( /\ pc = "solve"
         /\ PivotCol(table) # 0
         /\ PivotRow(table, PivotCol(table)) = 0 )
            => (solution' = Err("Infinite") /\ table' = table)]_vars

\* C8: solve terminates on every normalized problem: the loop of steps always
\* ends with a result.
C8_SolveTerminates == <>(solution.tag # "None")

\* C9: for a fixed input the value returned by solve_with_whole (Ok or not,
\* and fn_val) does not depend on the order in which the branch threads take
\* the mutex nor on the fractional variable branched on: every run returns
\* what the left-first, lowest-variable run returns.
C9_SameValueInEveryOrder ==
    (pc = "done" /\ solution.tag = "Ok")
        => LET ref == improve_in_order(problem, solution, MaxDepth)
           IN  ref.tag # "Diverge"
                => /\ (outcome.tag = "Ok") <=> (ref.tag = "Ok")
                   /\ outcome.tag = "Ok" => eq(outcome.fn_val, ref.fn_val)

\* C10: the Problem built by Problem::new has an m x n matrix with
\* n >= n_significant + m, no negative right-hand side, and for every row a
\* column holding 1 in that row and 0 in every other row; also when a supplied
\* right-hand side is negative.
C10_Normalized ==
    LET m == Len(problem.constraints)
        n == Len(problem.objective_function.coefficients)
    IN  /\ m = Len(input.constraints)
        /\ Len(problem.rhs) = m
        /\ \A k \in 1..m : Len(problem.constraints[k]) = n
        /\ n >= problem.objective_function.n_significant_variables + m
        /\ \A k \in 1..m :
              /\ problem.rhs[k][1] = "Finite"
              /\ problem.rhs[k][2] >= 0
        /\ \A k \in 1..m : \E j \in 1..n : \A k2 \in 1..m :
              problem.constraints[k2][j] = IF k2 = k THEN one ELSE zero

\* Problem::new normalized two constraints, one supplied with a negative
\* right-hand side
C10_NegativeRhsSupplied ==
    /\ Len(input.constraints) = 2
    /\ input.constraints[1].rhs[2] < 0
    /\ problem = ProblemNew(ObjectiveFunction(input.objective, TRUE), input.constraints)

\* the sign a supplied constraint has once its right-hand side is not negative
EffectiveSign(c) ==
    IF Signum(c.rhs) >= 0 THEN c.sign
    ELSE CASE c.sign = "Less" -> "Greater"
           [] c.sign = "Equals" -> "Equals"
           [] c.sign = "Greater" -> "Less"

\* C11: Problem::normalize lays the columns out as the original variables, then
\* one slack column per non-Equals constraint in constraint order (+1 for Less,
\* -1 for Greater in its own row, 0 elsewhere), then one artificial column per
\* constraint in constraint order (1 in its own row, 0 elsewhere); the objective
\* row is (0, c) for the original coefficients, (0, 0) for every slack and M
\* for every artificial; the right-hand sides keep constraint order.
C11_ColumnLayout ==
    LET m == Len(input.constraints)
        w == Width(input)
        slack_rows == SortedSeq({k \in 1..m : EffectiveSign(input.constraints[k]) # "Equals"})
        ns == Len(slack_rows)
        A == problem.constraints
        c == problem.objective_function.coefficients
    IN  /\ Len(A) = m
        /\ Len(c) = w + ns + m
        /\ \A k \in 1..m : Len(A[k]) = w + ns + m
        /\ \A j \in 1..ns : \A k \in 1..m :
              A[k][w + j] =
                  IF k # slack_rows[j] THEN zero
                  ELSE IF EffectiveSign(input.constraints[k]) = "Less" THEN one
                  ELSE from_integer(-1)
        /\ \A i \in 1..m : \A k \in 1..m :
              A[k][w + ns + i] = IF i = k THEN one ELSE zero
        /\ \A j \in 1..w : c[j] = <<zero, Coef(input.objective, j)>>
        /\ \A j \in 1..ns : c[w + j] = <<zero, zero>>
        /\ \A i \in 1..m : c[w + ns + i] = <<one, zero>>
        /\ \A k \in 1..m :
              problem.rhs[k] = <<"Finite", Abs(input.constraints[k].rhs[2]),
                                 input.constraints[k].rhs[3]>>

\* Problem::new normalized a Greater constraint followed by an Equals one, the
\* objective being narrower than the first constraint
C11_SlackAndArtificialBuilt ==
    /\ Len(input.constraints) = 2
    /\ input.constraints[1].sign = "Greater"
    /\ input.constraints[2].sign = "Equals"
    /\ Len(problem.constraints[1]) = Width(input) + 1 + 2
    /\ problem.constraints[1][Width(input) + 1] = from_integer(-1)

\* the constraint c with every coefficient and the right-hand side negated and
\* Less swapped with Greater
Negated(c) ==
    [coefficients |->
        [k \in 1..Len(c.coefficients) |->
            <<"Finite", -c.coefficients[k][2], c.coefficients[k][3]>>],
     rhs |-> <<"Finite", -c.rhs[2], c.rhs[3]>>,
     sign |-> CASE c.sign = "Less" -> "Greater"
                [] c.sign = "Equals" -> "Equals"
                [] c.sign = "Greater" -> "Less"]

\* C12: a Constraint multiplied by 1, with * or *=, is the same constraint;
\* multiplied by -1 it has every coefficient and the right-hand side negated
\* and Less swapped with Greater, and multiplied by -1 once more it is the
\* original again; normalize applies this negation to exactly the constraints
\* whose right-hand side is negative.
C12_ConstraintTimesUnit ==
    /\ (returned.done /\ call.fn \in {"constraint_mul", "constraint_mul_assign"})
        => LET c == call.args[1]
               k == call.args[2]
               again == IF call.fn = "constraint_mul"
                        THEN constraint_mul(returned.val, k)
                        ELSE constraint_mul_assign(returned.val, k)
           IN  IF k = one THEN returned.val = c
               ELSE returned.val = Negated(c) /\ again = c
    /\ (returned.done /\ call.fn = "reverse_negative")
        => LET c == call.args[1]
           IN  returned.val = IF c.rhs[2] < 0 THEN Negated(c) ELSE c

\* the bound of the cut a branch thread adds
CutBound(f, side) ==
    IF side = "left" THEN f.whole_part
    ELSE <<"Finite", f.whole_part[2] + 1, 1>>

\* the cut of the branch thread is added as an equality
Promoted(f, side) == side = "left" /\ f.whole_part[2] = 0

\* column j of the old problem is column Shifted(j, at) of the new one when a
\* column was inserted after the first `at` columns
Shifted(j, at) == IF j <= at THEN j ELSE j + 1

\* new is old with one row and two columns added for a Less or Greater cut on
\* variable i with the given bound
CutAdded(old, new, i, slack, bound) ==
    LET m == Len(old.constraints)
        n == Len(old.objective_function.coefficients)
        ns == old.objective_function.n_significant_variables
    IN  /\ Len(new.constraints) = m + 1
        /\ Len(new.rhs) = m + 1
        /\ Len(new.objective_function.coefficients) = n + 2
        /\ \A k \in 1..(m + 1) : Len(new.constraints[k]) = n + 2
        /\ \A k \in 1..m :
              /\ \A j \in 1..n : new.constraints[k][Shifted(j, ns)] = old.constraints[k][j]
              /\ new.constraints[k][ns + 1] = zero
              /\ new.constraints[k][n + 2] = zero
              /\ new.rhs[k] = old.rhs[k]
        /\ \A j \in 1..(n + 2) :
              new.constraints[m + 1][j] =
                  IF j = n + 2 THEN one
                  ELSE IF j = ns + 1 THEN slack
                  ELSE IF j = i THEN one ELSE zero
        /\ \A j \in 1..n :
              new.objective_function.coefficients[Shifted(j, ns)]
                  = old.objective_function.coefficients[j]
        /\ new.objective_function.coefficients[ns + 1] = <<zero, zero>>
        /\ new.objective_function.coefficients[n + 2] = <<one, zero>>
        /\ new.rhs[m + 1] = bound
        /\ new.objective_function.n_significant_variables = ns

\* C13: add_constraint_on_var with an effective sign of Less or Greater adds one
\* row and two columns: a slack column inserted at n_significant (every later
\* column moves right by one) with +1 (Less) or -1 (Greater) in the new row
\* and 0 in the old rows, and an artificial column appended last with 1 in the
\* new row and 0 in the old rows; the new row has 1 at column i and 0
\* elsewhere; the objective row gets (0, 0) at n_significant and M appended;
\* rhs is appended; the old entries are unchanged.
C13_CutAddsRowAndTwoColumns ==
    \A d \in 1..Len(stack) : \A side \in {"left", "right"} :
        (stack[d][side].pc # "spawned" /\ ~Promoted(stack[d], side))
            => CutAdded(stack[d].self, BranchProblem(stack[d], side), stack[d].i,
                        IF side = "left" THEN one ELSE from_integer(-1),
                        CutBound(stack[d], side))

\* both threads of an improve call have added their cut, the left one a Less
\* cut with a non-zero bound
C13_BothCutsAdded ==
    \E d \in 1..Len(stack) :
        /\ stack[d].left.pc # "spawned"
        /\ stack[d].right.pc # "spawned"
        /\ stack[d].whole_part[2] > 0

\* new is old with one row and one column added for the equality x_i = 0
EqualityAdded(old, new, i) ==
    LET m == Len(old.constraints)
        n == Len(old.objective_function.coefficients)
    IN  /\ Len(new.constraints) = m + 1
        /\ Len(new.rhs) = m + 1
        /\ Len(new.objective_function.coefficients) = n + 1
        /\ \A k \in 1..(m + 1) : Len(new.constraints[k]) = n + 1
        /\ \A k \in 1..m :
              /\ \A j \in 1..n : new.constraints[k][j] = old.constraints[k][j]
              /\ new.constraints[k][n + 1] = zero
              /\ new.rhs[k] = old.rhs[k]
        /\ \A j \in 1..(n + 1) :
              new.constraints[m + 1][j] = IF j = n + 1 \/ j = i THEN one ELSE zero
        /\ \A j \in 1..n :
              new.objective_function.coefficients[j]
                  = old.objective_function.coefficients[j]
        /\ new.objective_function.coefficients[n + 1] = <<one, zero>>
        /\ new.rhs[m + 1] = zero

\* C14: add_constraint_on_var(i, Less, 0) is treated as the equality x_i = 0:
\* it adds one row and one column only (the artificial, appended last) and no
\* slack column, one column fewer than a cut with a non-zero bound; a Greater
\* cut and a Less cut with a non-zero bound are never promoted and get their
\* slack column.
C14_LessZeroIsEquality ==
    \A d \in 1..Len(stack) : \A side \in {"left", "right"} :
        stack[d][side].pc # "spawned"
            => LET old == stack[d].self
                   new == BranchProblem(stack[d], side)
                   n == Len(old.objective_function.coefficients)
                   ns == old.objective_function.n_significant_variables
               IN  IF Promoted(stack[d], side)
                   THEN EqualityAdded(old, new, stack[d].i)
                   ELSE /\ Len(new.objective_function.coefficients) = n + 2
                        /\ new.constraints[Len(new.constraints)][ns + 1]
                              = IF side = "left" THEN one ELSE from_integer(-1)

\* the left thread of an improve call added the cut x_i <= 0 and the right one
\* its cut x_i >= 1
C14_ZeroCutAdded ==
    \E d \in 1..Len(stack) :
        /\ stack[d].left.pc # "spawned"
        /\ stack[d].right.pc # "spawned"
        /\ stack[d].whole_part[2] = 0

\* C15: n_significant_variables of a Problem built by Problem::new is the
\* number of original decision variables supplied by the caller, so the columns
\* below it are exactly the original variables and a returned Solution.vars has
\* one entry per original variable.
C15_SignificantAreOriginal ==
    /\ problem.objective_function.n_significant_variables = Width(input)
    /\ solution.tag = "Ok" => Len(solution.vars) = Width(input)

\* the product of the infinity inf and the finite value f by the sign rule
SignRule(inf, f) ==
    IF f[2] = 0 THEN zero
    ELSE IF (f[2] > 0) = (inf = Inf) THEN Inf ELSE MinusInf

\* C16: the product of an infinity and a finite value f is decided by the sign
\* of f in either operand order (+Inf, -Inf, 0 for f > 0, f < 0, f = 0 with
\* +Inf, the opposite infinities with -Inf), a product with a NaN operand is
\* NaN, and multiplication is commutative on the whole domain.
C16_InfinityTimesFinite ==
    (returned.done /\ call.fn = "mul")
        => LET x == call.args[1]
               y == call.args[2]
           IN  /\ (x[1] = "Nan" \/ y[1] = "Nan") => returned.val = Nan
               /\ (x[1] \in {"Inf", "MinusInf"} /\ y[1] = "Finite")
                    => returned.val = SignRule(x, y)
               /\ (x[1] = "Finite" /\ y[1] \in {"Inf", "MinusInf"})
                    => returned.val = SignRule(y, x)
               /\ returned.val = mul(y, x)

IsInfinity(x) == x[1] \in {"Inf", "MinusInf"}

\* C17: addition, subtraction and division follow the projective table:
\* (+Inf)+(-Inf), (+Inf)-(+Inf), (-Inf)-(-Inf), 0/0 and (+-Inf)/(+-Inf) are
\* NaN; f/0 is +Inf for f > 0 and -Inf for f < 0; f/(+-Inf) is 0; an infinity
\* plus or minus a finite value is that infinity; an operation with a NaN
\* operand is NaN; negation swaps +Inf and -Inf and fixes NaN.
C17_ProjectiveTable ==
    /\ (returned.done /\ call.fn \in {"add", "sub", "div"})
        => LET x == call.args[1]
               y == call.args[2]
               r == returned.val
           IN  /\ (x[1] = "Nan" \/ y[1] = "Nan") => r = Nan
               /\ (call.fn = "add" /\ IsInfinity(x) /\ IsInfinity(y) /\ x # y) => r = Nan
               /\ (call.fn = "sub" /\ IsInfinity(x) /\ x = y) => r = Nan
               /\ (call.fn = "div" /\ IsInfinity(x) /\ IsInfinity(y)) => r = Nan
               /\ (call.fn = "div" /\ x = zero /\ y = zero) => r = Nan
               /\ (call.fn = "div" /\ x[1] = "Finite" /\ x[2] > 0 /\ y = zero) => r = Inf
               /\ (call.fn = "div" /\ x[1] = "Finite" /\ x[2] < 0 /\ y = zero) => r = MinusInf
               /\ (call.fn = "div" /\ x[1] = "Finite" /\ IsInfinity(y)) => r = zero
               /\ (call.fn \in {"add", "sub"} /\ IsInfinity(x) /\ y[1] = "Finite") => r = x
               /\ (call.fn = "add" /\ x[1] = "Finite" /\ IsInfinity(y)) => r = y
    /\ (returned.done /\ call.fn = "neg")
        => LET x == call.args[1]
           IN  /\ x = Inf => returned.val = MinusInf
               /\ x = MinusInf => returned.val = Inf
               /\ x = Nan => returned.val = Nan

\* a negative finite value was divided by zero
C17_NegativeOverZero ==
    /\ returned.done
    /\ call.fn = "div"
    /\ call.args[1][1] = "Finite"
    /\ call.args[1][2] < 0
    /\ call.args[2] = zero
    /\ returned.val = MinusInf

\* place of a value's variant in the order NaN < -Inf < finite < +Inf
Rank(x) ==
    CASE x[1] = "Nan" -> 0
      [] x[1] = "MinusInf" -> 1
      [] x[1] = "Finite" -> 2
      [] x[1] = "Inf" -> 3

\* the comparison of two integers as an Ordering
IntCmp(a, b) == IF a < b THEN "Less" ELSE IF a = b THEN "Equal" ELSE "Greater"

Reverse(ordering) ==
    CASE ordering = "Less" -> "Greater"
      [] ordering = "Equal" -> "Equal"
      [] ordering = "Greater" -> "Less"

\* C18: RatioExt::total_cmp is a total order on the whole domain with
\* NaN < -Inf < every finite value (by value) < +Inf: reflexive (NaN against
\* NaN included), antisymmetric (total_cmp(a, b) is the reverse of
\* total_cmp(b, a)) and transitive.
C18_TotalOrder ==
    (returned.done /\ call.fn = "total_cmp")
        => LET x == call.args[1]
               y == call.args[2]
               r == returned.val
           IN  /\ r = IF x[1] = "Finite" /\ y[1] = "Finite"
                      THEN IntCmp(x[2] * y[3], y[2] * x[3])
                      ELSE IntCmp(Rank(x), Rank(y))
               /\ total_cmp(x, x) = "Equal"
               /\ total_cmp(y, x) = Reverse(r)
               /\ \A z \in ExtVals :
                    (r # "Greater" /\ total_cmp(y, z) # "Greater")
                        => total_cmp(x, z) # "Greater"

\* NaN was compared with -Inf and placed before it
C18_NanBeforeMinusInf ==
    /\ returned.done
    /\ call.fn = "total_cmp"
    /\ call.args = <<Nan, MinusInf>>
    /\ returned.val = "Less"

\* the two values are ordered and not equal
Differ(x, y) ==
    /\ x[1] # "Nan"
    /\ y[1] # "Nan"
    /\ IF x[1] = "Finite" /\ y[1] = "Finite" THEN x # y ELSE x[1] # y[1]

\* the comparison of two values that are ordered
Ordered(x, y) ==
    IF x[1] = "Finite" /\ y[1] = "Finite" THEN IntCmp(x[2] * y[3], y[2] * x[3])
    ELSE IntCmp(Rank(x), Rank(y))

LargestEstimateLowestIndex(t) ==
    With(Collect([j \in 1..Len(t.coefficients) |-> column_estimation_unchecked(t, j)]),
         LAMBDA est :
            LET positive == {j \in 1..Len(est) : bn_gt(est[j], bn_zero)}
                largest == {j \in positive :
                              \A k \in positive : ~bn_gt(est[k], est[j])}
            IN  IF positive = {} THEN 0
                ELSE CHOOSE j \in largest : \A k \in largest : j <= k)

\* C20: in a minimization step with at least one positive column estimate the
\* entering column is the one with the largest estimate, and of several columns
\* sharing the largest estimate the one with the smallest index.
C20_EnteringColumn ==
    [][(pc = "solve" /\ LargestEstimateLowestIndex(table) # 0)
            => prev_pivot_col' = LargestEstimateLowestIndex(table)]_vars

\* the rows with a strictly positive entry in column j
PositiveRows(t, j) == {k \in 1..Len(t.tableau) : t.tableau[k][j][2] > 0}

\* rhs[k] / tableau[k][j] <= rhs[l] / tableau[l][j] for two rows of PositiveRows
RatioAtMost(t, j, k, l) ==
    t.rhs[k][2] * t.tableau[k][j][3] * t.rhs[l][3] * t.tableau[l][j][2]
        <= t.rhs[l][2] * t.tableau[l][j][3] * t.rhs[k][3] * t.tableau[k][j][2]

\* the rows of PositiveRows with the smallest ratio
MinRatioRows(t, j) ==
    {k \in PositiveRows(t, j) : \A l \in PositiveRows(t, j) : RatioAtMost(t, j, k, l)}

\* the lowest of them
LowestMinRatioRow(t, j) ==
    CHOOSE k \in MinRatioRows(t, j) : \A l \in MinRatioRows(t, j) : k <= l

\* C21: in a minimization step the leaving row is chosen among the rows whose
\* entry in the entering column is strictly positive, it minimizes
\* rhs[i] / tableau[i][j*] over them, and of several rows with the minimal
\* ratio the one with the smallest index is chosen.
C21_LeavingRow ==
    [][\A j \in {PivotCol(table)} :
        (pc = "solve" /\ j # 0 /\ j # prev_pivot_col /\ PositiveRows(table, j) # {})
            => /\ solution'.tag = "None"
               /\ table'.basis =
                    [table.basis EXCEPT ![LowestMinRatioRow(table, j)] = j]]_vars

\* a pivot was made and in the table it left two rows share the minimal ratio
\* of the next entering column
C21_TieAfterPivot ==
    /\ pc = "solve"
    /\ prev_pivot_col # 0
    /\ PivotCol(table) # 0
    /\ Cardinality(MinRatioRows(table, PivotCol(table))) >= 2

\* no column is named twice in the basis
BasisInjective(t) ==
    \A k, l \in 1..Len(t.basis) : t.basis[k] = t.basis[l] => k = l

\* C22: starting from a normalized problem, after every pivot the basis vector
\* has pairwise distinct entries and every right-hand side entry is
\* non-negative.
C22_BasisInjectiveRhsNonNegative ==
    pc \in {"solve", "solved"}
        => /\ BasisInjective(table)
           /\ \A k \in 1..Len(table.rhs) : is_finite(table.rhs[k]) /\ table.rhs[k][2] >= 0

\* two pivots or more were made on a table of two rows, and a right-hand side
\* entry is zero
C22_AfterPivots ==
    /\ pc = "solve"
    /\ Len(table.basis) = 2
    /\ \A k \in 1..2 : table.coefficients[table.basis[k]] # one_big
    /\ \E k \in 1..2 : table.rhs[k] = zero

\* column basis[k] of the tableau is the unit vector of row k
UnitColumns(t) ==
    \A k \in 1..Len(t.basis) : \A l \in 1..Len(t.tableau) :
        t.tableau[l][t.basis[k]] = IF l = k THEN one ELSE zero

\* the table a pivot on row i and column j is to leave, in exact arithmetic
PivotedTable(t, i, j) ==
    LET el == t.tableau[i][j]
        row == [c \in 1..Len(t.tableau[i]) |-> RatioDiv(t.tableau[i][c], el)]
        rhs_i == RatioDiv(t.rhs[i], el)
    IN  [t EXCEPT
            !.rhs = [k \in 1..Len(t.rhs) |->
                        IF k = i THEN rhs_i
                        ELSE RatioSub(t.rhs[k], RatioMul(t.tableau[k][j], rhs_i))],
            !.tableau = [k \in 1..Len(t.tableau) |->
                        IF k = i THEN row
                        ELSE [c \in 1..Len(t.tableau[k]) |->
                                RatioSub(t.tableau[k][c],
                                         RatioMul(t.tableau[k][j], row[c]))]],
            !.basis = [k \in 1..Len(t.basis) |-> IF k = i THEN j ELSE t.basis[k]]]

\* C23: at every step, for every row k the tableau column basis[k] is the unit
\* vector of row k; a pivot divides row i* and its right-hand side by the pivot
\* element, subtracts tableau[i][j*] times the normalized pivot row from every
\* other row and its right-hand side, sets basis[i*] to j* and leaves every
\* other basis entry unchanged.
C23_CanonicalForm ==
    /\ [](pc \in {"solve", "solved"} => UnitColumns(table))
    /\ [][(pc = "solve" /\ solution'.tag = "None")
            => \E i \in PositiveRows(table, prev_pivot_col') :
                    table' = PivotedTable(table, i, prev_pivot_col')]_vars

\* a pivot on an element other than 1 was made: the row of the entering
\* column had to be divided
C23_PivotDivided ==
    /\ pc = "solve"
    /\ prev_pivot_col # 0
    /\ \E k \in 1..Len(table.basis) :
        /\ table.basis[k] = prev_pivot_col
        /\ SimplexTableNew(problem).tableau[k][prev_pivot_col] \notin {zero, one}
        /\ table.rhs[k] # SimplexTableNew(problem).rhs[k]

\* the basis SimplexTable::new derives for p has one entry per row, and its
\* k-th entry is a column with 1 in row k and 0 in every other row
InitialBasisCanonical(p) ==
    LET basis == SimplexTableNew(p).basis
    IN  /\ Len(basis) = Len(p.constraints)
        /\ \A k \in 1..Len(basis) : \A l \in 1..Len(p.constraints) :
                p.constraints[l][basis[k]] = IF l = k THEN one ELSE zero

\* C24: after Problem::new followed by any sequence of add_constraint_on_var
\* calls, the initial basis SimplexTable::new derives (the columns whose
\* objective coefficient equals M, in column order) has exactly one entry per
\* row and its k-th entry is a column with 1 in row k and 0 elsewhere.
C24_InitialBasis ==
    /\ InitialBasisCanonical(problem)
    /\ \A d \in 1..Len(stack) :
        /\ InitialBasisCanonical(stack[d].self)
        /\ InitialBasisCanonical(BranchProblem(stack[d], "left"))
        /\ InitialBasisCanonical(BranchProblem(stack[d], "right"))

\* a problem that went through three add_constraint_on_var calls, the last
\* one with the sign Greater
C24_ThreeCutsAdded ==
    /\ Len(stack) >= 3
    /\ Len(SimplexTableNew(BranchProblem(stack[3], "right")).basis)
            = Len(problem.constraints) + 3

\* the incumbent of an improve call changes from old to new
Assigned(old, new, minimization) ==
    /\ new.tag = "Ok"
    /\ all_integer(new.vars)
    /\ old.tag # "None" =>
        IF minimization THEN lt(new.fn_val, old.fn_val) ELSE gt(new.fn_val, old.fn_val)

\* C25: within one improve call best_sol is only ever assigned an
\* integer-feasible solution, and once it holds a solution it is replaced only
\* by a strictly better one; a branch no better than the incumbent returns
\* without changing it, and a recursed result is adopted only if it is
\* strictly better and integer.
C25_IncumbentOnlyImproves ==
    [][\A d \in 1..Len(stack) :
        (d <= Len(stack') /\ stack'[d].best_sol # stack[d].best_sol)
            => Assigned(stack[d].best_sol, stack'[d].best_sol,
                        stack[d].self.objective_function.minimization)]_vars

\* an improve call whose two branches both ended normally, the incumbent
\* being the solution of one of them and differing from the other's
C25_SecondBranchMetIncumbent ==
    \E d \in 1..Len(stack) : \E a, b \in {"left", "right"} :
        /\ stack[d][a].result = "Ok"
        /\ stack[d][b].result = "Ok"
        /\ stack[d][a].sol.tag = "Ok"
        /\ stack[d][b].sol.tag = "Ok"
        /\ stack[d].best_sol.tag = "Ok"
        /\ stack[d].best_sol = stack[d][a].sol
        /\ stack[d].best_sol # stack[d][b].sol

\* C26: a branch thread holds the incumbent mutex only for the short critical
\* section that compares objective values and overwrites the incumbent: it
\* holds it neither while solving its LP nor while recursing into
\* Problem::improve, so its sibling never waits for the mutex during the
\* exploration of a subtree.
C26_LockOnlyInCriticalSection ==
    \A d \in 1..Len(stack) : \A side \in {"left", "right"} :
        stack[d][side].pc \in {"spawned", "recursing"} => stack[d].mutex # side

\* the pairs of BigNumbers function_estimation and the column estimates of a
\* step multiply: a basis coefficient and a lifted entry of that row
Multiplied(t) ==
    UNION {{<<basis_coefficients(t)[k], bn_from(v)>> :
                v \in {t.rhs[k]} \cup {t.tableau[k][j] : j \in 1..Len(t.coefficients)}} :
           k \in 1..Len(t.basis)}

\* C27: every BigNumber multiplication of a solve (function_estimation, the
\* column estimates) has an operand whose big part is zero, so the big*big
\* term the multiplication drops is zero.
C27_NoBigTimesBig ==
    pc \in {"solve", "solved"} =>
        \A ab \in Multiplied(table) :
            /\ is_zero(ab[1][1]) \/ is_zero(ab[2][1])
            /\ mul(ab[1][1], ab[2][1]) = zero

\* after a pivot an artificial column (coefficient M) is still in the basis,
\* beside a column of finite cost: M is multiplied by a non-zero entry
C27_BigOperandMultiplied ==
    /\ pc = "solve"
    /\ prev_pivot_col # 0
    /\ \E ab \in Multiplied(table) : ab[1] = one_big /\ ~is_zero(ab[2][2])
    /\ \E ab \in Multiplied(table) : ab[1] # one_big

\* C28: for all ExtendedRational x and y, each compound assignment (+=, -=,
\* *=, /=), with the right operand by value and by reference, leaves in x the
\* result of the binary operator on x and y.
C28_CompoundAssignments ==
    (pc = "call" /\ returned.done /\ call \in AssignCalls) =>
        returned.val =
            CASE call.fn \in {"add_assign", "add_assign_ref"} ->
                    add(call.args[1], call.args[2])
              [] call.fn \in {"sub_assign", "sub_assign_ref"} ->
                    sub(call.args[1], call.args[2])
              [] call.fn \in {"mul_assign", "mul_assign_ref"} ->
                    mul(call.args[1], call.args[2])
              [] call.fn \in {"div_assign", "div_assign_ref"} ->
                    div(call.args[1], call.args[2])

\* C29: for finite coefficients the column that entered in one step has the
\* estimate zero in the next, so step_min never selects the same entering
\* column twice in a row: the stall check never fires and Problem::solve never
\* returns Err(Absent).
C29_NoStall ==
    /\ (pc = "solve" /\ prev_pivot_col # 0)
            => /\ column_estimation_unchecked(table, prev_pivot_col) = bn_zero
               /\ PivotCol(table) # prev_pivot_col
    /\ ~(solution.tag = "Err" /\ solution.error = "Absent")

\* a solve that ended after two pivots or more: the stall check was passed
\* with a previous column every time
C29_SolvedAfterPivots ==
    /\ pc = "solved"
    /\ solution.tag = "Ok"
    /\ prev_pivot_col = 0
    /\ Cardinality({j \in 1..Len(table.coefficients) :
            \E k \in 1..Len(table.basis) :
                table.basis[k] = j /\ table.coefficients[j] # one_big}) >= 2

\* the run leaves the part of the search the bounds keep: a branch LP is not
\* solved within MaxIter pivots, or a thread at depth MaxDepth is to recurse
BeyondBounds ==
    /\ pc = "improve"
    /\ \E d \in 1..Len(stack) : \E side \in {"left", "right"} :
        \/ /\ stack[d][side].pc = "spawned"
           /\ solve(BranchProblem(stack[d], side)).tag = "Diverge"
        \/ /\ d = MaxDepth
           /\ stack[d][side].pc = "solved"
           /\ stack[d].mutex = "free"
           /\ Recurses(stack[d], side)

\* the mutexes held are those of the improve calls that have a nested call
\* running, each held by the thread that made the nested call
LocksFollowCalls ==
    \A d \in 1..Len(stack) :
        IF d < Len(stack)
        THEN /\ stack[d].mutex \in {"left", "right"}
             /\ stack[d][stack[d].mutex].pc = "recursing"
        ELSE stack[d].mutex = "free"

\* C30: the branch-and-bound driver never deadlocks: each improve call has its
\* own incumbent mutex, the mutexes held when a thread blocks are those of
\* enclosing calls, both branch threads have ended before improve returns (on
\* Ok and on error), and provided every LP solve terminates every
\* solve_with_whole call eventually returns.
C30_NoDeadlock ==
    /\ []LocksFollowCalls
    /\ [][Len(stack') < Len(stack)
            => stack[Len(stack)].left.pc = "done" /\ stack[Len(stack)].right.pc = "done"]_vars
    /\ \/ <>[](pc = "solve")
       \/ <>(pc = "done" \/ BeyondBounds)

\* solve_with_whole returned an error of a nested improve call whose other
\* branch had been explored
C30_ReturnedError ==
    /\ pc = "done"
    /\ solution.tag = "Ok"
    /\ outcome.tag = "Err"

=============================================================================
